---- MODULE Spec2Model ----
(***************************************************************************)
(* secure_log: an encrypted logger.  Producer threads format a log entry   *)
(* and send it over a bounded crossbeam channel; one background worker per *)
(* logger receives, encrypts (AES-256-GCM, random nonce), base64-encodes   *)
(* and appends one line per entry to the log file.  SecureLogger::decrypt  *)
(* reads such a file back.                                                 *)
(*                                                                         *)
(* Spec     : loggers, handles (clones), producer threads, channel, worker.*)
(* RegSpec  : constructions racing for INIT.call_once.                     *)
(* FairSpec : one logger, the worker thread fairly scheduled.              *)
(* LiveSpec : one logger, the worker and the producers fairly scheduled.   *)
(* DecSpec  : the codec pipeline (seal, encode, write, tamper, decrypt).   *)
(***************************************************************************)
EXTENDS Integers, Sequences, FiniteSets, TLC

\* src/src/lib.rs:38
QUEUE_SIZE == 10000

\* ---- bounds of the model ----
\* the channel capacity explored (bounded(QUEUE_SIZE) behaves alike for any
\* capacity >= 1; a small one makes the full queue reachable)
MaxCap == 2
\* number of SecureLogger::encrypt constructions in the process
MaxLoggers == 1
\* number of SecureLogger values (originals, clones, the leaked sink)
MaxHandles == 3
\* number of producer threads inside a log or drop call at one time
MaxThreads == 2
\* number of log calls
MaxMsgs == 2
\* number of constructions racing for the registration (RegSpec)
MaxConstructions == 2

Loggers == 1..MaxLoggers
Constructions == 1..MaxConstructions
Handles == 1..MaxHandles

VARIABLES
  INIT,      \* static INIT: Once -- "incomplete" | "complete"
  sink,      \* the handle registered with log::set_logger (0: none)
  hst,       \* handle -> "unused" | "building" | "live" | "dropping" | "dropped"
  hlog,      \* handle -> the logger whose channel its sender feeds (0: none)
  queue,     \* logger -> the channel's buffer, a sequence of LogMessage
  worker,    \* logger -> "unspawned" | "recv" | "have" | "exited"
  cur,       \* logger -> the message the worker has received
  wexit,     \* logger -> why the worker's loop ended
  built,     \* logger -> result of SecureLogger::encrypt: "no" | "Ok" | "Io"
             \* ("spawned": the call is between the spawn and call_once)
  file,      \* logger -> what was written to the log file, write by write:
             \* the id of the entry, and whether its line is whole (the
             \* encoded text and its newline) or cut short by a failed write
  calls,     \* the log and drop calls running in producer threads, each
             \* about to send (or blocked sending) message m through handle h
  reported,  \* the errors log calls have handed to their callers
  nextId,    \* number of log calls made so far
  sent,      \* logger -> history of the messages accepted by the channel
  failed,    \* logger -> ids of entries dropped by the worker
  lost,      \* ids of entries whose send returned Err
  \* ---- codec pipeline (DecSpec) ----
  dkey,      \* passphrase the file was written under
  dfile,     \* the file's content, a sequence of characters
  dents,     \* the entries written, in order
  dnon,      \* what OsRng.fill_bytes returned for each of them
  dtam,      \* per line, what was done to it after it was written
  din,       \* passphrase given to decrypt
  dpos,      \* decrypt: index of the next line to process
  dout,      \* decrypt: decrypted_contents
  dres,      \* decrypt: "idle" | "running" | "Ok" | an Error variant
  dret       \* decrypt: the String of an Ok result

lvars == <<INIT, sink, hst, hlog, queue, worker, cur, wexit, built, file,
           calls, reported, nextId, sent, failed, lost>>
dvars == <<dkey, dfile, dents, dnon, dtam, din, dpos, dout, dres, dret>>
vars == <<lvars, dvars>>

\* ---- LogMessage (src/src/lib.rs:43-49) ----
\* an Entry carries its text, here the number of the log call that made it;
\* prior: the entries whose log call had returned when this call began
Entry(i, prior) == [tag |-> "Entry", id |-> i, prior |-> prior]
Shutdown == [tag |-> "Shutdown", id |-> 0, prior |-> {}]
NoMessage == [tag |-> "None", id |-> 0, prior |-> {}]

\* ---- bytes and characters ----
\* a byte is 0..255; a character of the file is a base64 symbol 0..63
\* (its index in the alphabet), PAD, NON_B64 (any character outside the
\* alphabet) or LF
PAD == 64
NON_B64 == 65
LF == 66

\* let mut nonce_bytes = [0u8; 12]
NONCE_LEN == 12
\* AES-256-GCM: 32-byte key, 16-byte tag
KEY_LEN == 32
TAG_LEN == 16

\* bounded(QUEUE_SIZE), the capacity scaled to the model
Capacity == IF QUEUE_SIZE < MaxCap THEN QUEUE_SIZE ELSE MaxCap

\* the senders of a logger's channel that are still alive
Senders(l) ==
  {h \in Handles : hlog[h] = l /\ hst[h] \in {"building", "live", "dropping"}}

\* the receiver lives inside the worker's closure
ReceiverAlive(l) == worker[l] \in {"recv", "have"}

Unused == {h \in Handles : hst[h] = "unused"}
FirstUnused == CHOOSE h \in Unused : \A g \in Unused : h <= g
SecondUnused == CHOOSE h \in Unused \ {FirstUnused} :
                  \A g \in Unused \ {FirstUnused} : h <= g

\* ---- the channel (crossbeam_channel::bounded) ----
\* send blocks while the buffer is full
HasRoom_OffByOne(l) == Len(queue[l]) <= Capacity
HasRoom(l) == Len(queue[l]) < Capacity
Push_Front(q, m) == <<m>> \o q
Push(q, m) == Append(q, m)
Front_ShutdownFirst(q) ==
  IF \E i \in 1..Len(q) : q[i].tag = "Shutdown"
    THEN q[CHOOSE i \in 1..Len(q) : q[i].tag = "Shutdown"]
    ELSE Head(q)
Front(q) == Head(q)
Pop_Peek(q) == q
Pop(q) == Tail(q)

\* ---- log::Log for SecureLogger ----
Error == 1
Warn == 2
Info == 3
Debug == 4
Trace == 5
Levels == Error..Trace
\* fn enabled: metadata.level() <= Level::Trace
enabled(level) == level <= Trace

\* content of the path before OpenOptions::truncate(true)
OldContent == <<[id |-> 0, whole |-> TRUE]>>

\* the calls of producer threads that have not returned yet
LogCalls == {c \in calls : c.op = "log"}
DropCalls == {c \in calls : c.op = "drop"}
\* the entries whose log call has returned
ReturnedIds == {i \in 1..nextId : \A c \in LogCalls : c.m.id # i}

\* the process before any call, for the constructions L it will make
LInitOf(L) ==
  /\ INIT = "incomplete"
  /\ sink = 0
  /\ hst = [h \in Handles |-> "unused"]
  /\ hlog = [h \in Handles |-> 0]
  /\ queue = [l \in L |-> <<>>]
  /\ worker = [l \in L |-> "unspawned"]
  /\ cur = [l \in L |-> NoMessage]
  /\ wexit = [l \in L |-> "none"]
  /\ built = [l \in L |-> "no"]
  /\ file = [l \in L |-> OldContent]
  /\ calls = {}
  /\ reported = {}
  /\ nextId = 0
  /\ sent = [l \in L |-> <<>>]
  /\ failed = [l \in L |-> {}]
  /\ lost = {}

LInit == LInitOf(Loggers)

DIdle ==
  /\ dkey = <<>> /\ dfile = <<>> /\ dents = <<>> /\ dnon = <<>>
  /\ dtam = <<>> /\ din = <<>>
  /\ dpos = 0 /\ dout = <<>> /\ dres = "idle" /\ dret = <<>>

\* SecureLogger::encrypt: channel, file, worker thread, handle, INIT.call_once
EncryptOk(l) ==
  /\ built[l] = "no"
  /\ \A k \in DOMAIN built : k < l => built[k] # "no"
  /\ Cardinality(Unused) >= (IF INIT = "incomplete" THEN 2 ELSE 1)
  /\ built' = [built EXCEPT ![l] = "Ok"]
  /\ file' = [file EXCEPT ![l] = <<>>]
  /\ worker' = [worker EXCEPT ![l] = "recv"]
  /\ IF INIT = "incomplete"
       THEN /\ hst' = [hst EXCEPT ![FirstUnused] = "live",
                                  ![SecondUnused] = "live"]
            /\ hlog' = [hlog EXCEPT ![FirstUnused] = l, ![SecondUnused] = l]
            /\ sink' = SecondUnused
            /\ INIT' = "complete"
       ELSE /\ hst' = [hst EXCEPT ![FirstUnused] = "live"]
            /\ hlog' = [hlog EXCEPT ![FirstUnused] = l]
            /\ UNCHANGED <<sink, INIT>>
  /\ UNCHANGED <<queue, cur, wexit, calls, reported, nextId, sent, failed,
                 lost, dvars>>

\* SecureLogger::encrypt up to the logger value: channel, file opened and
\* truncated, worker spawned, Self { sender, _worker }
EncryptSpawn(l) ==
  /\ built[l] = "no"
  /\ \A k \in DOMAIN built : k < l => built[k] # "no"
  /\ Cardinality(Unused) >= (IF INIT = "incomplete" THEN 2 ELSE 1)
  /\ built' = [built EXCEPT ![l] = "spawned"]
  /\ file' = [file EXCEPT ![l] = <<>>]
  /\ worker' = [worker EXCEPT ![l] = "recv"]
  /\ hst' = [hst EXCEPT ![FirstUnused] = "building"]
  /\ hlog' = [hlog EXCEPT ![FirstUnused] = l]
  /\ UNCHANGED <<INIT, sink, queue, cur, wexit, calls, reported, nextId, sent,
                 failed, lost, dvars>>

\* (set_logger called by every construction, the sink pointing at the last)
EncryptCallOnce_Always(l) ==
  /\ built[l] = "spawned"
  /\ LET logger == CHOOSE h \in Handles : hlog[h] = l /\ hst[h] = "building"
         clone == IF sink = 0 THEN FirstUnused ELSE sink
     IN /\ hst' = [hst EXCEPT ![logger] = "live", ![clone] = "live"]
        /\ hlog' = [hlog EXCEPT ![clone] = l]
        /\ sink' = clone
        /\ INIT' = "complete"
  /\ built' = [built EXCEPT ![l] = "Ok"]
  /\ UNCHANGED <<queue, worker, cur, wexit, file, calls, reported, nextId,
                 sent, failed, lost, dvars>>

\* INIT.call_once(|| set_logger(Box::leak(Box::new(logger.clone())))) and
\* Ok(logger); Once runs the closure of one caller and makes the others wait
EncryptCallOnce(l) ==
  /\ built[l] = "spawned"
  /\ LET logger == CHOOSE h \in Handles : hlog[h] = l /\ hst[h] = "building" IN
       IF INIT = "incomplete"
         THEN /\ hst' = [hst EXCEPT ![logger] = "live", ![FirstUnused] = "live"]
              /\ hlog' = [hlog EXCEPT ![FirstUnused] = l]
              /\ sink' = FirstUnused
              /\ INIT' = "complete"
         ELSE /\ hst' = [hst EXCEPT ![logger] = "live"]
              /\ UNCHANGED <<hlog, sink, INIT>>
  /\ built' = [built EXCEPT ![l] = "Ok"]
  /\ UNCHANGED <<queue, worker, cur, wexit, file, calls, reported, nextId,
                 sent, failed, lost, dvars>>

\* SecureLogger::encrypt returning Err(Io): the open fails (file untouched)
\* or the spawn fails (file already truncated)
EncryptIo(l) ==
  /\ built[l] = "no"
  /\ \A k \in DOMAIN built : k < l => built[k] # "no"
  /\ built' = [built EXCEPT ![l] = "Io"]
  /\ \E truncated \in BOOLEAN :
       file' = [file EXCEPT ![l] = IF truncated THEN <<>> ELSE @]
  /\ UNCHANGED <<INIT, sink, hst, hlog, queue, worker, cur, wexit, calls,
                 reported, nextId, sent, failed, lost, dvars>>

\* impl Clone for SecureLogger
Clone(h) ==
  /\ hst[h] = "live"
  /\ h # sink
  /\ Unused # {}
  /\ hst' = [hst EXCEPT ![FirstUnused] = "live"]
  /\ hlog' = [hlog EXCEPT ![FirstUnused] = hlog[h]]
  /\ UNCHANGED <<INIT, sink, queue, worker, cur, wexit, built, file, calls,
                 reported, nextId, sent, failed, lost, dvars>>

\* Log::log up to the send: a thread formats the entry
LogCall(h) ==
  /\ Cardinality(calls) < MaxThreads
  /\ hst[h] = "live"
  /\ nextId < MaxMsgs
  /\ \E level \in Levels :
       IF enabled(level)
         THEN /\ nextId' = nextId + 1
              /\ calls' = calls \cup
                   {[op |-> "log", m |-> Entry(nextId + 1, ReturnedIds), h |-> h]}
         ELSE UNCHANGED <<nextId, calls>>
  /\ UNCHANGED <<INIT, sink, hst, hlog, queue, worker, cur, wexit, built, file,
                 reported, sent, failed, lost, dvars>>

\* (the send's error handed to the caller instead of being discarded)
LogSend_Propagates(c) ==
  /\ c \in LogCalls
  /\ LET l == hlog[c.h] IN
       IF ~ReceiverAlive(l)
         THEN /\ lost' = lost \cup {c.m.id}
              /\ reported' = reported \cup {"SendError"}
              /\ UNCHANGED <<queue, sent>>
         ELSE /\ HasRoom(l)
              /\ queue' = [queue EXCEPT ![l] = Push(@, c.m)]
              /\ sent' = [sent EXCEPT ![l] = Append(@, c.m)]
              /\ UNCHANGED <<lost, reported>>
  /\ calls' = calls \ {c}
  /\ UNCHANGED <<INIT, sink, hst, hlog, worker, cur, wexit, built, file,
                 nextId, failed, dvars>>

\* (a send to a channel whose receiver is gone left waiting)
LogSend_WaitsOnDead(c) ==
  /\ c \in LogCalls
  /\ LET l == hlog[c.h] IN
       /\ ReceiverAlive(l)
       /\ HasRoom(l)
       /\ queue' = [queue EXCEPT ![l] = Push(@, c.m)]
       /\ sent' = [sent EXCEPT ![l] = Append(@, c.m)]
       /\ UNCHANGED lost
  /\ calls' = calls \ {c}
  /\ UNCHANGED <<INIT, sink, hst, hlog, worker, cur, wexit, built, file,
                 reported, nextId, failed, dvars>>

\* let _ = self.sender.send(LogMessage::Entry(log_entry)); log returns ()
LogSend(c) ==
  /\ c \in LogCalls
  /\ LET l == hlog[c.h] IN
       IF ~ReceiverAlive(l)
         THEN /\ lost' = lost \cup {c.m.id}
              /\ UNCHANGED <<queue, sent>>
         ELSE /\ HasRoom(l)
              /\ queue' = [queue EXCEPT ![l] = Push(@, c.m)]
              /\ sent' = [sent EXCEPT ![l] = Append(@, c.m)]
              /\ UNCHANGED lost
  /\ calls' = calls \ {c}
  /\ UNCHANGED <<INIT, sink, hst, hlog, worker, cur, wexit, built, file,
                 reported, nextId, failed, dvars>>

\* a SecureLogger value goes out of scope in some thread: Drop::drop starts
\* (a value borrowed by a running log call cannot be dropped)
DropCall(h) ==
  /\ Cardinality(calls) < MaxThreads
  /\ hst[h] = "live"
  /\ h # sink
  /\ \A c \in calls : c.h # h
  /\ hst' = [hst EXCEPT ![h] = "dropping"]
  /\ calls' = calls \cup {[op |-> "drop", m |-> Shutdown, h |-> h]}
  /\ UNCHANGED <<INIT, sink, hlog, queue, worker, cur, wexit, built, file,
                 reported, nextId, sent, failed, lost, dvars>>

\* (the sender released without a sentinel)
DropSend_Silent(c) ==
  /\ c \in DropCalls
  /\ hst' = [hst EXCEPT ![c.h] = "dropped"]
  /\ calls' = calls \ {c}
  /\ UNCHANGED <<INIT, sink, hlog, queue, sent, worker, cur, wexit, built,
                 file, reported, nextId, failed, lost, dvars>>

\* (the worker joined after the send)
DropSend_Join(c) ==
  /\ c \in DropCalls
  /\ LET l == hlog[c.h] IN
       IF ReceiverAlive(l)
         THEN /\ c.m = Shutdown
              /\ HasRoom(l)
              /\ queue' = [queue EXCEPT ![l] = Push(@, c.m)]
              /\ sent' = [sent EXCEPT ![l] = Append(@, c.m)]
              /\ calls' = (calls \ {c}) \cup {[c EXCEPT !.m = NoMessage]}
              /\ UNCHANGED hst
         ELSE /\ hst' = [hst EXCEPT ![c.h] = "dropped"]
              /\ calls' = calls \ {c}
              /\ UNCHANGED <<queue, sent>>
  /\ UNCHANGED <<INIT, sink, hlog, worker, cur, wexit, built, file, reported,
                 nextId, failed, lost, dvars>>

\* let _ = self.sender.send(LogMessage::Shutdown); then the fields drop:
\* the Sender, and the Arc<JoinHandle>, which detaches and does not join
DropSend(c) ==
  /\ c \in DropCalls
  /\ LET l == hlog[c.h] IN
       IF ~ReceiverAlive(l)
         THEN UNCHANGED <<queue, sent>>
         ELSE /\ HasRoom(l)
              /\ queue' = [queue EXCEPT ![l] = Push(@, c.m)]
              /\ sent' = [sent EXCEPT ![l] = Append(@, c.m)]
  /\ hst' = [hst EXCEPT ![c.h] = "dropped"]
  /\ calls' = calls \ {c}
  /\ UNCHANGED <<INIT, sink, hlog, worker, cur, wexit, built, file, reported,
                 nextId, failed, lost, dvars>>

\* (the Shutdown arm falling through to the next recv)
WorkerRecv_NoBreak(l) ==
  /\ worker[l] = "recv"
  /\ IF queue[l] # <<>>
       THEN /\ queue' = [queue EXCEPT ![l] = Pop(@)]
            /\ IF Front(queue[l]).tag = "Shutdown"
                 THEN UNCHANGED <<worker, wexit, cur>>
                 ELSE /\ worker' = [worker EXCEPT ![l] = "have"]
                      /\ cur' = [cur EXCEPT ![l] = Front(queue[l])]
                      /\ UNCHANGED wexit
       ELSE /\ Senders(l) = {}
            /\ worker' = [worker EXCEPT ![l] = "exited"]
            /\ wexit' = [wexit EXCEPT ![l] = "disconnected"]
            /\ UNCHANGED <<queue, cur>>
  /\ UNCHANGED <<INIT, sink, hst, hlog, built, file, calls, reported,
                 nextId, sent, failed, lost, dvars>>

\* while let Ok(message) = receiver.recv() { match message { ... } }
WorkerRecv(l) ==
  /\ worker[l] = "recv"
  /\ IF queue[l] # <<>>
       THEN /\ queue' = [queue EXCEPT ![l] = Pop(@)]
            /\ IF Front(queue[l]).tag = "Shutdown"
                 THEN /\ worker' = [worker EXCEPT ![l] = "exited"]
                      /\ wexit' = [wexit EXCEPT ![l] = "Shutdown"]
                      /\ UNCHANGED cur
                 ELSE /\ worker' = [worker EXCEPT ![l] = "have"]
                      /\ cur' = [cur EXCEPT ![l] = Front(queue[l])]
                      /\ UNCHANGED wexit
       ELSE /\ Senders(l) = {}
            /\ worker' = [worker EXCEPT ![l] = "exited"]
            /\ wexit' = [wexit EXCEPT ![l] = "disconnected"]
            /\ UNCHANGED <<queue, cur>>
  /\ UNCHANGED <<INIT, sink, hst, hlog, built, file, calls, reported,
                 nextId, sent, failed, lost, dvars>>

\* what one pass over the Entry arm can do: the line written (the flush
\* may still fail), nothing written because encrypt or writeln! failed, or
\* a part of the line written: writeln! on a File is write_all of the text
\* and then of the newline, and either can fail after bytes have gone out
Outcomes == {"written", "encrypt_err", "write_err", "partial_write", "flush_err"}

\* (a failure unwinding the worker thread instead of being swallowed)
WorkerEntry_Unwrap(l) ==
  /\ worker[l] = "have"
  /\ \E o \in Outcomes :
       CASE o \in {"written", "flush_err"} ->
              /\ file' = [file EXCEPT ![l] =
                            Append(@, [id |-> cur[l].id, whole |-> TRUE])]
              /\ worker' = [worker EXCEPT ![l] = "recv"]
              /\ UNCHANGED <<failed, wexit>>
         [] o = "partial_write" ->
              /\ file' = [file EXCEPT ![l] =
                            Append(@, [id |-> cur[l].id, whole |-> FALSE])]
              /\ failed' = [failed EXCEPT ![l] = @ \cup {cur[l].id}]
              /\ worker' = [worker EXCEPT ![l] = "exited"]
              /\ wexit' = [wexit EXCEPT ![l] = "panic"]
         [] OTHER ->
              /\ failed' = [failed EXCEPT ![l] = @ \cup {cur[l].id}]
              /\ worker' = [worker EXCEPT ![l] = "exited"]
              /\ wexit' = [wexit EXCEPT ![l] = "panic"]
              /\ UNCHANGED file
  /\ cur' = [cur EXCEPT ![l] = NoMessage]
  /\ UNCHANGED <<INIT, sink, hst, hlog, queue, built, calls, reported,
                 nextId, sent, lost, dvars>>

\* (the line left in a buffer, the worker back at recv)
WorkerEntry_Buffered(l) ==
  /\ worker[l] = "have"
  /\ worker' = [worker EXCEPT ![l] = "recv"]
  /\ cur' = [cur EXCEPT ![l] = NoMessage]
  /\ UNCHANGED <<INIT, sink, hst, hlog, queue, wexit, built, file, failed,
                 calls, reported, nextId, sent, lost, dvars>>

\* the Entry arm: nonce, cipher.encrypt, BASE64.encode, writeln!, flush
WorkerEntry(l) ==
  /\ worker[l] = "have"
  /\ \E o \in Outcomes :
       CASE o \in {"written", "flush_err"} ->
              /\ file' = [file EXCEPT ![l] =
                            Append(@, [id |-> cur[l].id, whole |-> TRUE])]
              /\ UNCHANGED failed
         [] o = "partial_write" ->
              /\ file' = [file EXCEPT ![l] =
                            Append(@, [id |-> cur[l].id, whole |-> FALSE])]
              /\ failed' = [failed EXCEPT ![l] = @ \cup {cur[l].id}]
         [] OTHER ->
              /\ failed' = [failed EXCEPT ![l] = @ \cup {cur[l].id}]
              /\ UNCHANGED file
  /\ worker' = [worker EXCEPT ![l] = "recv"]
  /\ cur' = [cur EXCEPT ![l] = NoMessage]
  /\ UNCHANGED <<INIT, sink, hst, hlog, queue, wexit, built, calls, reported,
                 nextId, sent, lost, dvars>>

\* ======================= the codec pipeline =============================
\* number of lines written to the file, and of lines altered afterwards
MaxLines == 2
MaxTampered == 1

RECURSIVE WSum(_, _)
\* a position-weighted checksum of a byte string (weights odd)
WSum(b, i) ==
  IF i > Len(b) THEN 0 ELSE (2 * i + 1) * b[i] + WSum(b, i + 1)

\* ---- sha2::Sha256, an ideal hash: 32 bytes, distinct for the passphrases
\* of the model ----
Sha256(b) ==
  LET sum == WSum(b, 1) + Len(b)
  IN [i \in 1..KEY_LEN |-> (sum + 31 * i) % 256]

\* fn derive_key
derive_key(key) == Sha256(key)

\* ---- aes_gcm::Aes256Gcm, an ideal AEAD: ciphertext of the plaintext's
\* length followed by a 16-byte tag over key, nonce and ciphertext ----
\* Aes256Gcm::new_from_slice: Err on a key that is not 32 bytes
new_from_slice(key_bytes) == Len(key_bytes) = KEY_LEN
\* one byte out of a checksum, its high bits folded into the low ones
Fold(x) == (x + x \div 256) % 256
\* what key and nonce contribute to the key stream and the tag (distinct
\* for the derived keys and the nonces of the model)
KeyMix(k, n) == (Fold(WSum(k, 1)) + 3 * Fold(WSum(n, 1))) % 256
Stream(mix, i) == (mix + 13 * i) % 256
Tag(mix, ct) ==
  LET sum == mix + WSum(ct, 1) + Len(ct)
  IN [j \in 1..TAG_LEN |-> (sum + 29 * j) % 256]
\* cipher.encrypt(nonce, plaintext)
AeadEncrypt(k, n, pt) ==
  LET mix == KeyMix(k, n)
      ct == [i \in 1..Len(pt) |-> (pt[i] + Stream(mix, i)) % 256]
  IN ct \o Tag(mix, ct)
\* (the tag not verified)
AeadDecrypt_Unauthenticated(k, n, data) ==
  IF Len(data) < TAG_LEN
    THEN [ok |-> FALSE, bytes |-> <<>>]
    ELSE LET mix == KeyMix(k, n)
             ct == SubSeq(data, 1, Len(data) - TAG_LEN)
         IN [ok |-> TRUE,
             bytes |-> [i \in 1..Len(ct) |->
                          (ct[i] + 256 - Stream(mix, i)) % 256]]
\* cipher.decrypt(nonce, data): Err unless the tag verifies
AeadDecrypt(k, n, data) ==
  IF Len(data) < TAG_LEN
    THEN [ok |-> FALSE, bytes |-> <<>>]
    ELSE LET mix == KeyMix(k, n)
             ct == SubSeq(data, 1, Len(data) - TAG_LEN)
             tag == SubSeq(data, Len(data) - TAG_LEN + 1, Len(data))
         IN IF tag # Tag(mix, ct)
              THEN [ok |-> FALSE, bytes |-> <<>>]
              ELSE [ok |-> TRUE,
                    bytes |-> [i \in 1..Len(ct) |->
                                 (ct[i] + 256 - Stream(mix, i)) % 256]]

\* ---- base64::engine::general_purpose::STANDARD ----
RECURSIVE Base64Encode(_)
Base64Encode(b) ==
  IF Len(b) = 0 THEN <<>>
  ELSE IF Len(b) = 1 THEN
    <<b[1] \div 4, (b[1] % 4) * 16, PAD, PAD>>
  ELSE IF Len(b) = 2 THEN
    <<b[1] \div 4, (b[1] % 4) * 16 + b[2] \div 16, (b[2] % 16) * 4, PAD>>
  ELSE
    <<b[1] \div 4, (b[1] % 4) * 16 + b[2] \div 16,
      (b[2] % 16) * 4 + b[3] \div 64, b[3] % 64>>
      \o Base64Encode(SubSeq(b, 4, Len(b)))

\* number of trailing '=' (0, 1 or 2 in a canonical encoding)
Pads(s) ==
  IF Len(s) >= 2 /\ s[Len(s)] = PAD /\ s[Len(s) - 1] = PAD THEN 2
  ELSE IF Len(s) >= 1 /\ s[Len(s)] = PAD THEN 1
  ELSE 0

\* padding required and canonical, no symbol outside the alphabet, no
\* non-zero trailing bits
Base64Valid(s) ==
  /\ Len(s) % 4 = 0
  /\ \A i \in 1..(Len(s) - Pads(s)) : s[i] < PAD
  /\ \A i \in 1..Len(s) : s[i] <= PAD
  /\ Pads(s) = 2 => s[Len(s) - 2] % 16 = 0
  /\ Pads(s) = 1 => s[Len(s) - 1] % 4 = 0

RECURSIVE Base64Bytes(_)
Base64Bytes(s) ==
  IF Len(s) = 0 THEN <<>>
  ELSE LET b1 == s[1] * 4 + s[2] \div 16
           b2 == (s[2] % 16) * 16 + s[3] \div 4
           b3 == (s[3] % 4) * 64 + s[4]
       IN IF s[3] = PAD THEN <<b1>>
          ELSE IF s[4] = PAD THEN <<b1, b2>>
          ELSE <<b1, b2, b3>> \o Base64Bytes(SubSeq(s, 5, Len(s)))

\* BASE64.decode(line)
Base64Decode(s) ==
  IF Base64Valid(s) THEN [ok |-> TRUE, bytes |-> Base64Bytes(s)]
                    ELSE [ok |-> FALSE, bytes |-> <<>>]

\* String::from_utf8_lossy on bytes (ASCII passes, anything else U+FFFD)
from_utf8_lossy(b) == [i \in 1..Len(b) |-> IF b[i] < 128 THEN b[i] ELSE 65533]

\* ---- the worker's Entry arm on bytes ----
\* (the nonce left out of the line)
WireLine_NoNonce(k, n, entry) == Base64Encode(AeadEncrypt(k, n, entry))
\* combined = nonce || encrypted; encoded = BASE64.encode(combined)
WireLine(k, n, entry) == Base64Encode(n \o AeadEncrypt(k, n, entry))

\* where the lines of a text end: at each LF, and at the end of a text
\* whose last character is not LF
LineEnds(f) ==
  {i \in 1..Len(f) : f[i] = LF}
    \cup (IF Len(f) > 0 /\ f[Len(f)] # LF THEN {Len(f) + 1} ELSE {})
KthEnd(f, k) ==
  CHOOSE x \in LineEnds(f) : Cardinality({y \in LineEnds(f) : y <= x}) = k
\* BufReader::lines
Lines(f) ==
  [k \in 1..Cardinality(LineEnds(f)) |->
     SubSeq(f, IF k = 1 THEN 1 ELSE KthEnd(f, k - 1) + 1, KthEnd(f, k) - 1)]

RECURSIVE Unlines(_)
Unlines(ls) ==
  IF ls = <<>> THEN <<>> ELSE Head(ls) \o <<LF>> \o Unlines(Tail(ls))

\* ---- decrypt, one pass of the loop over a line ----
NoError == "none"
\* (the length check off by one)
DecryptLine_Le(k, line) ==
  LET encrypted_data == Base64Decode(line) IN
  IF ~encrypted_data.ok THEN [err |-> "InvalidData", text |-> <<>>]
  ELSE IF Len(encrypted_data.bytes) <= NONCE_LEN
    THEN [err |-> "InvalidData", text |-> <<>>]
  ELSE LET nonce == SubSeq(encrypted_data.bytes, 1, NONCE_LEN)
           encrypted_message ==
             SubSeq(encrypted_data.bytes, NONCE_LEN + 1,
                    Len(encrypted_data.bytes))
           decrypted == AeadDecrypt(k, nonce, encrypted_message)
       IN IF ~decrypted.ok THEN [err |-> "DecryptionFailed", text |-> <<>>]
          ELSE [err |-> NoError,
                text |-> from_utf8_lossy(decrypted.bytes) \o <<10>>]

DecryptLine(k, line) ==
  LET encrypted_data == Base64Decode(line) IN
  IF ~encrypted_data.ok THEN [err |-> "InvalidData", text |-> <<>>]
  ELSE IF Len(encrypted_data.bytes) < NONCE_LEN
    THEN [err |-> "InvalidData", text |-> <<>>]
  ELSE LET nonce == SubSeq(encrypted_data.bytes, 1, NONCE_LEN)
           encrypted_message ==
             SubSeq(encrypted_data.bytes, NONCE_LEN + 1,
                    Len(encrypted_data.bytes))
           decrypted == AeadDecrypt(k, nonce, encrypted_message)
       IN IF ~decrypted.ok THEN [err |-> "DecryptionFailed", text |-> <<>>]
          ELSE [err |-> NoError,
                text |-> from_utf8_lossy(decrypted.bytes) \o <<10>>]

\* ---- inputs of the pipeline ----
\* passphrases "k" and "w"
Passphrases == {<<107>>, <<119>>}
\* formatted entries; the second one holds a newline
LogEntries == {<<69>>, <<73, 10, 120>>}
\* what OsRng.fill_bytes may produce
Nonces == {[i \in 1..NONCE_LEN |-> 1], [i \in 1..NONCE_LEN |-> (17 * i) % 256]}

Flip(b) == IF b % 2 = 0 THEN b + 1 ELSE b - 1
FlipAt(bytes, p) == [i \in 1..Len(bytes) |-> IF i = p THEN Flip(bytes[i]) ELSE bytes[i]]

\* what can be done to a written line
Tampers == {"other_char", "cut_symbol", "empty_line", "short", "empty_ct",
            "truncated_ct", "flip_nonce", "flip_ct", "flip_tag"}
Tamper(kind, line) ==
  LET bytes == Base64Bytes(line) IN
  CASE kind = "other_char" -> [line EXCEPT ![2] = NON_B64]
    [] kind = "cut_symbol" -> SubSeq(line, 1, Len(line) - 1)
    [] kind = "empty_line" -> <<>>
    [] kind = "short" -> Base64Encode(SubSeq(bytes, 1, NONCE_LEN - 1))
    [] kind = "empty_ct" -> Base64Encode(SubSeq(bytes, 1, NONCE_LEN))
    [] kind = "truncated_ct" -> Base64Encode(SubSeq(bytes, 1, Len(bytes) - 1))
    [] kind = "flip_nonce" -> Base64Encode(FlipAt(bytes, 1))
    [] kind = "flip_ct" -> Base64Encode(FlipAt(bytes, NONCE_LEN + 1))
    [] kind = "flip_tag" -> Base64Encode(FlipAt(bytes, Len(bytes)))

DInit ==
  /\ dkey = <<107>>
  /\ din \in Passphrases
  /\ dfile = <<>> /\ dents = <<>> /\ dnon = <<>> /\ dtam = <<>>
  /\ dpos = 0 /\ dout = <<>> /\ dres = "idle" /\ dret = <<>>

\* (the nonce of the line before used again)
DWrite_StaleNonce(entry, nonce) ==
  /\ dres = "idle"
  /\ Len(dents) < MaxLines
  /\ \A i \in 1..Len(dtam) : dtam[i] = "intact"
  /\ LET used == IF dnon = <<>> THEN nonce ELSE dnon[Len(dnon)] IN
       dfile' = dfile \o WireLine(derive_key(dkey), used, entry) \o <<LF>>
  /\ dents' = Append(dents, entry)
  /\ dnon' = Append(dnon, nonce)
  /\ dtam' = Append(dtam, "intact")
  /\ UNCHANGED <<dkey, din, dpos, dout, dres, dret, lvars>>

\* the worker writes the line of one more entry, with the nonce OsRng
\* returned for it: writeln!(file, "{}", encoded)
DWrite(entry, nonce) ==
  /\ dres = "idle"
  /\ Len(dents) < MaxLines
  /\ \A i \in 1..Len(dtam) : dtam[i] = "intact"
  /\ dfile' = dfile \o WireLine(derive_key(dkey), nonce, entry) \o <<LF>>
  /\ dents' = Append(dents, entry)
  /\ dnon' = Append(dnon, nonce)
  /\ dtam' = Append(dtam, "intact")
  /\ UNCHANGED <<dkey, din, dpos, dout, dres, dret, lvars>>

\* the file is altered between the write and the read
DTamper(i, kind) ==
  /\ dres = "idle"
  /\ i \in 1..Len(dtam)
  /\ dtam[i] = "intact"
  /\ Cardinality({j \in 1..Len(dtam) : dtam[j] # "intact"}) < MaxTampered
  /\ dfile' = Unlines([Lines(dfile) EXCEPT ![i] = Tamper(kind, @)])
  /\ dtam' = [dtam EXCEPT ![i] = kind]
  /\ UNCHANGED <<dkey, dents, dnon, din, dpos, dout, dres, dret, lvars>>

\* decrypt up to the loop: derive_key, new_from_slice, File::open
DStart ==
  /\ dres = "idle"
  /\ IF ~new_from_slice(derive_key(din))
       THEN /\ dres' = "InvalidKey"
            /\ UNCHANGED <<dpos, dout>>
       ELSE \E opened \in BOOLEAN :
              IF opened
                THEN /\ dres' = "running"
                     /\ dpos' = 1
                     /\ dout' = <<>>
                ELSE /\ dres' = "Io"
                     /\ UNCHANGED <<dpos, dout>>
  /\ UNCHANGED <<dkey, dfile, dents, dnon, dtam, din, dret, lvars>>

\* (a bad line skipped instead of ending the call)
DLoop_Skip ==
  /\ dres = "running"
  /\ IF dpos > Len(Lines(dfile))
       THEN /\ dres' = "Ok"
            /\ dret' = dout
            /\ UNCHANGED <<dpos, dout>>
       ELSE LET r == DecryptLine(derive_key(din), Lines(dfile)[dpos]) IN
            /\ dout' = dout \o r.text
            /\ dpos' = dpos + 1
            /\ UNCHANGED <<dres, dret>>
  /\ UNCHANGED <<dkey, dfile, dents, dnon, dtam, din, lvars>>

\* for line in reader.lines() { ... } Ok(decrypted_contents)
DLoop ==
  /\ dres = "running"
  /\ IF dpos > Len(Lines(dfile))
       THEN /\ dres' = "Ok"
            /\ dret' = dout
            /\ UNCHANGED <<dpos, dout>>
       ELSE LET r == DecryptLine(derive_key(din), Lines(dfile)[dpos]) IN
            IF r.err # NoError
              THEN /\ dres' = r.err
                   /\ UNCHANGED <<dpos, dout, dret>>
              ELSE /\ dout' = dout \o r.text
                   /\ dpos' = dpos + 1
                   /\ UNCHANGED <<dres, dret>>
  /\ UNCHANGED <<dkey, dfile, dents, dnon, dtam, din, lvars>>

DecInit == LInit /\ DInit

DecNext ==
  \/ \E entry \in LogEntries, nonce \in Nonces : DWrite(entry, nonce)
  \/ \E i \in 1..MaxLines, kind \in Tampers : DTamper(i, kind)
  \/ DStart
  \/ DLoop

DecSpec == DecInit /\ [][DecNext]_vars


Init == LInit /\ DIdle

Next ==
  \/ \E l \in Loggers : EncryptOk(l)
  \/ \E l \in Loggers : EncryptIo(l)
  \/ \E h \in Handles : Clone(h)
  \/ \E h \in Handles : LogCall(h)
  \/ \E c \in calls : LogSend(c)
  \/ \E h \in Handles : DropCall(h)
  \/ \E c \in calls : DropSend(c)
  \/ \E l \in Loggers : WorkerRecv(l)
  \/ \E l \in Loggers : WorkerEntry(l)

Spec == Init /\ [][Next]_vars

\* ---- constructions racing for the registration ----
\* encrypt in two steps, so that one construction can pass another between
\* its spawn and its call_once
RegInit == LInitOf(Constructions) /\ DIdle

RegNext ==
  \/ \E l \in Constructions : EncryptSpawn(l)
  \/ \E l \in Constructions : EncryptCallOnce(l)
  \/ \E l \in Constructions : EncryptIo(l)
  \/ \E h \in Handles : LogCall(h)
  \/ \E c \in calls : LogSend(c)
  \/ \E l \in Constructions : WorkerRecv(l)
  \/ \E l \in Constructions : WorkerEntry(l)

RegSpec == RegInit /\ [][RegNext]_vars

\* ---- the worker thread keeps being scheduled ----
\* one logger, its handles and its producers; a worker that can take a step
\* (a message is waiting, or it holds one) takes it; nothing is assumed of
\* the producer threads
OneLogger == {1}

FairInit == LInitOf(OneLogger) /\ DIdle

FairNext ==
  \/ \E l \in OneLogger : EncryptOk(l)
  \/ \E l \in OneLogger : EncryptIo(l)
  \/ \E h \in Handles : Clone(h)
  \/ \E h \in Handles : LogCall(h)
  \/ \E c \in calls : LogSend(c)
  \/ \E h \in Handles : DropCall(h)
  \/ \E c \in calls : DropSend(c)
  \/ \E l \in OneLogger : WorkerRecv(l)
  \/ \E l \in OneLogger : WorkerEntry(l)

WorkerFair ==
  \A l \in OneLogger : WF_vars(WorkerRecv(l)) /\ WF_vars(WorkerEntry(l))

FairSpec == FairInit /\ [][FairNext]_vars /\ WorkerFair

\* ---- the producer threads keep being scheduled too ----
\* a thread whose send can go through, or fail, gets to do it
ProducersFair ==
  /\ \A i \in 1..MaxMsgs :
       WF_vars(\E c \in calls : c.m.id = i /\ LogSend(c))
  /\ \A h \in Handles :
       WF_vars(\E c \in calls : c.h = h /\ DropSend(c))

LiveSpec == FairInit /\ [][FairNext]_vars /\ WorkerFair /\ ProducersFair

\* ---- helpers of the properties ----
Built == {l \in Loggers : built[l] = "Ok"}
\* position of entry i in the order the channel accepted the messages
SentAt(l, i) == CHOOSE k \in 1..Len(sent[l]) : sent[l][k].id = i
WasSent(l, i) == \E k \in 1..Len(sent[l]) : sent[l][k].id = i
PriorOf(l, i) == sent[l][SentAt(l, i)].prior
InFile(l, i) == \E k \in 1..Len(file[l]) : file[l][k].id = i
InQueue(l, i) == \E k \in 1..Len(queue[l]) : queue[l][k].id = i
EntriesSent(l) == {k \in 1..Len(sent[l]) : sent[l][k].tag = "Entry"}
ShutdownAccepted(l) ==
  /\ Len(sent'[l]) = Len(sent[l]) + 1
  /\ sent'[l][Len(sent'[l])].tag = "Shutdown"
BlockedOnFull(c) ==
  /\ c \in LogCalls
  /\ ReceiverAlive(hlog[c.h])
  /\ Len(queue[hlog[c.h]]) = Capacity

\* C1: a Shutdown sentinel is accepted by a logger's channel only in the
\* step that releases the last outstanding handle of that logger; while
\* another handle of the same channel is alive no Shutdown is enqueued.
C1_ShutdownOnlyOnLastRelease ==
  [][\A l \in Loggers : ShutdownAccepted(l) =>
        {h \in Handles : hlog'[h] = l /\ hst'[h] \in {"live", "dropping"}} = {}]_vars

\* C2: the lines of a logger's file are in the order the channel accepted
\* their entries; and of two written entries where the log call of the
\* second began after the log call of the first had returned (as two calls
\* of one thread do), the first is the earlier line.
C2_FileInEnqueueOrder ==
  \A l \in Built : \A i, j \in 1..Len(file[l]) :
    /\ WasSent(l, file[l][i].id)
    /\ i < j => SentAt(l, file[l][i].id) < SentAt(l, file[l][j].id)
    /\ file[l][i].id \in PriorOf(l, file[l][j].id) => i < j

C2_Witness ==
  \E l \in Built :
    /\ Len(file[l]) >= 2
    /\ file[l][1].id \in PriorOf(l, file[l][2].id)

\* C3: when the worker has left its loop on a Shutdown, every Entry the
\* channel accepted ahead of the first Shutdown has been processed (written
\* or dropped by a failure) and none of them is left in the queue.
C3_DrainedBeforeShutdown ==
  \A l \in Loggers :
    wexit[l] = "Shutdown" =>
      \A k \in EntriesSent(l) :
        (\A j \in 1..k : sent[l][j].tag # "Shutdown") =>
          /\ InFile(l, sent[l][k].id) \/ sent[l][k].id \in failed[l]
          /\ ~InQueue(l, sent[l][k].id)
          /\ cur[l].id # sent[l][k].id

C3_Witness ==
  \E l \in Loggers :
    /\ wexit[l] = "Shutdown"
    /\ Len(sent[l]) >= 3
    /\ sent[l][1].tag = "Entry" /\ sent[l][2].tag = "Entry"
    /\ sent[l][3].tag = "Shutdown"
    /\ InFile(l, sent[l][1].id)

\* C4: the queue never holds more than its capacity (at most QUEUE_SIZE);
\* a log call that finds the queue full and the worker alive stays in its
\* send, its message neither enqueued nor discarded, and the queue does not
\* grow, for as long as that holds.
C4_BoundedAndBlocking ==
  /\ [](\A l \in Loggers : Len(queue[l]) <= Capacity /\ Capacity <= QUEUE_SIZE)
  /\ [][\A c \in calls : BlockedOnFull(c) =>
          /\ c \in calls'
          /\ c.m.id \notin lost'
          /\ \A k \in 1..Len(queue'[hlog[c.h]]) :
               queue'[hlog[c.h]][k].id # c.m.id
          /\ Len(queue'[hlog[c.h]]) <= Len(queue[hlog[c.h]])]_vars

C4_Witness ==
  \E c \in calls :
    /\ BlockedOnFull(c)
    /\ \E k \in 1..Capacity : queue[hlog[c.h]][k].tag = "Entry"

\* C5: no entry is written twice, into one file or into two, and a file
\* never holds more lines than the channel accepted entries.
C5_NoDuplicates ==
  /\ \A l \in Built :
       /\ \A i, j \in 1..Len(file[l]) : file[l][i].id = file[l][j].id => i = j
       /\ Len(file[l]) <= Cardinality(EntriesSent(l))
  /\ \A l, k \in Built : \A i \in 1..nextId :
       InFile(l, i) /\ InFile(k, i) => l = k

\* two producers were in their log calls at the same time and both their
\* entries are in the file, once each
C5_Witness ==
  \E l \in Built :
    /\ Len(file[l]) >= 2
    /\ file[l][1].id \notin PriorOf(l, file[l][2].id)
    /\ Len(file[l]) = Cardinality(EntriesSent(l))

\* C6: a failure in the Entry arm drops that entry only: the worker goes
\* back to recv with the queue untouched; the loop ends on a Shutdown and on
\* nothing else, never on the channel being disconnected.
C6_FailureDropsOneEntry ==
  /\ [](\A l \in Loggers :
          /\ wexit[l] \in {"none", "Shutdown"}
          /\ (worker[l] = "exited" <=> wexit[l] = "Shutdown"))
  /\ [][\A l \in Loggers : worker[l] = "have" /\ cur'[l] # cur[l] =>
          /\ worker'[l] = "recv"
          /\ queue'[l] = queue[l]
          /\ failed'[l] \subseteq failed[l] \cup {cur[l].id}
          /\ \/ cur[l].id \in failed'[l]
             \/ \E k \in 1..Len(file'[l]) : file'[l][k].id = cur[l].id]_vars

C6_Witness ==
  \E l \in Built :
    /\ 1 \in failed[l]
    /\ ~InFile(l, 1)
    /\ InFile(l, 2)

\* C7: a log call hands no error to its caller; when the worker is gone the
\* send is not blocked, and an entry whose send failed is in no queue and in
\* no file.
C7_LogNeverFails ==
  /\ reported = {}
  /\ \A c \in LogCalls : ~ReceiverAlive(hlog[c.h]) => ENABLED LogSend(c)
  /\ \A i \in lost : \A l \in Loggers :
       ~InFile(l, i) /\ ~InQueue(l, i) /\ ~WasSent(l, i) /\ cur[l].id # i

C7_Witness ==
  /\ lost # {}
  /\ \A c \in LogCalls : c.m.id \notin lost
  /\ \E l \in Built : worker[l] = "exited" /\ Len(file[l]) >= 1

\* ---- helpers of the codec properties ----
Returned == dres \in {"Ok", "InvalidKey", "InvalidData", "DecryptionFailed"}
Intact == \A i \in 1..Len(dtam) : dtam[i] = "intact"
RECURSIVE PlainText(_)
\* e1 + newline + ... + en + newline
PlainText(es) ==
  IF es = <<>> THEN <<>> ELSE Head(es) \o <<10>> \o PlainText(Tail(es))
LineErr(i) == DecryptLine(derive_key(din), Lines(dfile)[i]).err
BadLines == {i \in 1..Len(Lines(dfile)) : LineErr(i) # NoError}
TamperedLines == {i \in 1..Len(dtam) : dtam[i] # "intact"}
Least(S) == CHOOSE x \in S : \A y \in S : x <= y
ExpectedError(kind) ==
  IF kind \in {"other_char", "cut_symbol", "empty_line", "short"}
    THEN "InvalidData" ELSE "DecryptionFailed"

\* C8: decrypt of a file made of the lines the worker wrote for e1..en,
\* with the passphrase they were written under, returns Ok with
\* e1 + newline + ... + en + newline; for the zero-byte file, Ok("").
C8_RoundTrip ==
  Returned /\ Intact /\ din = dkey =>
    /\ dres = "Ok"
    /\ dret = PlainText(dents)
    /\ (dfile = <<>> => dret = <<>>)

C8_Witness ==
  /\ dres = "Ok" /\ Intact /\ din = dkey
  /\ Len(dents) >= 2
  /\ \E i \in 1..Len(dents) : \E j \in 1..Len(dents[i]) : dents[i][j] = 10
  /\ dret # <<>>

\* C9: decrypt is all-or-nothing: with a bad line in the file it returns
\* the error of the first bad line and no text; it returns Ok only when
\* every line decodes and authenticates.
C9_AllOrNothing ==
  Returned =>
    /\ BadLines # {} => dres = LineErr(Least(BadLines)) /\ dret = <<>>
    /\ dres = "Ok" => BadLines = {}

C9_Witness ==
  /\ Returned /\ din = dkey
  /\ Len(dtam) >= 2 /\ dtam[1] = "intact" /\ dtam[2] # "intact"
  /\ dout # <<>>
  /\ dres # "Ok" /\ dret = <<>>

C11_KeySensitivity ==
  /\ Returned
  /\ Len(dtam) >= 1 /\ dtam[1] = "intact"
  /\ derive_key(din) # derive_key(dkey)
  => dres = "DecryptionFailed" /\ dret = <<>>

C11_Witness ==
  /\ Returned /\ Intact
  /\ Len(dents) >= 2
  /\ derive_key(din) # derive_key(dkey)
  /\ dres = "DecryptionFailed"

\* what every step keeps: a complete registration stays as it is; the sink
\* is set by the first construction to finish, to one of its handles; a
\* send reaches the queue of its handle's logger only; a step of one worker
\* leaves the other loggers' queue, worker and file alone
RegistrationStep ==
  /\ (INIT = "complete") =>
       (INIT' = "complete" /\ sink' = sink /\ hlog'[sink] = hlog[sink])
  /\ (sink' # sink) =>
       (/\ \A k \in Constructions : built[k] # "Ok"
        /\ built[hlog'[sink']] = "spawned"
        /\ built'[hlog'[sink']] = "Ok")
  /\ \A c \in calls \ calls' : \A k \in Constructions :
       k # hlog[c.h] => queue'[k] = queue[k]
  /\ \A l \in Constructions : worker[l] # worker'[l] =>
       \A k \in Constructions \ {l} :
         /\ queue'[k] = queue[k]
         /\ worker'[k] = worker[k]
         /\ file'[k] = file[k]

Registered ==
  /\ (INIT = "complete") <=> (sink # 0)
  /\ (sink # 0) => (hst[sink] = "live" /\ built[hlog[sink]] = "Ok")
  /\ \A l \in Constructions : built[l] = "Ok" =>
       /\ worker[l] # "unspawned"
       /\ \E h \in Handles \ {sink} : hlog[h] = l /\ hst[h] # "unused"

\* C12: the sink is registered once, by the first construction to reach
\* call_once and with a clone of that construction's logger, and is never
\* registered again or pointed elsewhere; every successful construction,
\* the later ones too, has a handle of its own on a queue and a worker of
\* its own.
C12_RegisteredOnce == []Registered /\ [][RegistrationStep]_vars

\* construction 2 passed construction 1 between its spawn and its call_once:
\* the sink is a clone of logger 2, and logger 1, registered by nobody, has
\* written an entry to its own file, as has logger 2
C12_Witness ==
  /\ built[1] = "Ok" /\ built[2] = "Ok"
  /\ sink # 0 /\ hlog[sink] = 2
  /\ Len(file[1]) >= 1 /\ Len(file[2]) >= 1

\* the first 12 bytes a written line decodes to
NonceOf(line) ==
  LET symbols == 4 * (NONCE_LEN \div 3)
  IN IF Len(line) <= symbols
       THEN SubSeq(Base64Bytes(line), 1, NONCE_LEN)
       ELSE Base64Bytes(SubSeq(line, 1, symbols))
LineNonce(i) == NonceOf(Lines(dfile)[i])
WrittenLines == {i \in 1..Len(dtam) : dtam[i] = "intact"}

ShutdownQueued(l) == \E k \in 1..Len(queue[l]) : queue[l][k].tag = "Shutdown"

\* C14: once a Shutdown is in a logger's queue, the worker, as long as it
\* is scheduled, comes to leave its loop, whatever the producers do or do
\* not do from then on.
C14_ShutdownLeadsToExit ==
  \A l \in OneLogger : ShutdownQueued(l) ~> (worker[l] = "exited")

\* a Shutdown is queued behind an Entry the worker has yet to take
C14_Witness ==
  \E l \in OneLogger :
    /\ Len(queue[l]) >= 2
    /\ queue[l][1].tag = "Entry"
    /\ queue[l][2].tag = "Shutdown"
    /\ worker[l] = "have"

\* the entries the worker has dequeued and neither written nor dropped
Pending(l) ==
  {i \in 1..nextId :
     WasSent(l, i) /\ ~InQueue(l, i) /\ ~InFile(l, i) /\ i \notin failed[l]}

\* C15: the worker handles one message at a time: in the step in which it
\* dequeues a message, every Entry it dequeued before is in the file (or
\* was dropped by a failure); so at every moment at most one dequeued Entry,
\* the one the worker holds, is not yet in the file.
C15_OneAtATime ==
  /\ [](\A l \in Built :
          /\ Cardinality(Pending(l)) <= 1
          /\ Pending(l) \subseteq {cur[l].id}
          /\ worker[l] = "recv" => Pending(l) = {})
  /\ [][\A l \in Built :
          Len(queue'[l]) < Len(queue[l]) => Pending(l) = {}]_vars

\* the first entry is in the file, the worker holds the second, and more
\* is waiting in the queue
C15_Witness ==
  \E l \in Built :
    /\ worker[l] = "have"
    /\ Len(file[l]) = 1
    /\ Pending(l) = {cur[l].id}
    /\ queue[l] # <<>>

\* C16: the file is empty when a construction has succeeded; from then on
\* the file changes only in a step of that logger's worker, and then by
\* exactly one whole line appended; no log, clone or drop changes it, and
\* once the worker has exited it never changes.
C16_AppendOnlyWholeLines ==
  [][\A l \in Loggers :
       /\ (built[l] # "Ok" /\ built'[l] = "Ok") => file'[l] = <<>>
       /\ (built[l] = "Ok" /\ file'[l] # file[l]) =>
            /\ worker[l] = "have" /\ worker'[l] = "recv"
            /\ Len(file'[l]) = Len(file[l]) + 1
            /\ SubSeq(file'[l], 1, Len(file[l])) = file[l]
            /\ file'[l][Len(file'[l])].whole
       /\ worker[l] = "exited" => file'[l] = file[l]]_vars

\* C17: a drop never waits for the worker to terminate: a drop call whose
\* send can go through (room in the queue) or fails (the worker is gone)
\* can return at once, whatever the worker is doing; and the step in which
\* it returns is the step of its send, which leaves the worker where it was.
C17_DropFireAndForget ==
  /\ [](\A c \in DropCalls :
          (~ReceiverAlive(hlog[c.h]) \/ HasRoom(hlog[c.h])) => ENABLED DropSend(c))
  /\ [][\A c \in DropCalls : c \notin calls' =>
          /\ hst'[c.h] = "dropped"
          /\ worker' = worker /\ cur' = cur /\ file' = file
          /\ ReceiverAlive(hlog[c.h]) =>
               queue'[hlog[c.h]] = Append(queue[hlog[c.h]], Shutdown)]_vars

\* a drop has returned while the worker is still running and an accepted
\* Entry is still in the queue, not written
C17_Witness ==
  \E h \in Handles : \E i \in 1..nextId :
    /\ hst[h] = "dropped"
    /\ worker[hlog[h]] # "exited"
    /\ InQueue(hlog[h], i) /\ ~InFile(hlog[h], i)
    /\ ShutdownQueued(hlog[h])

\* the entries the channel accepted after it had accepted a Shutdown
BehindShutdown(l) ==
  {sent[l][j].id : j \in {j \in EntriesSent(l) :
                            \E k \in 1..(j - 1) : sent[l][k].tag = "Shutdown"}}

\* C18: when a drop returns, its Shutdown is in the queue or the worker is
\* gone; and no Entry that went into the queue behind a Shutdown, or whose
\* send failed because the worker had exited, is in the file, whichever
\* handle it came through.
C18_NothingWrittenAfterADrop ==
  /\ [][\A c \in DropCalls : c \notin calls' =>
          ShutdownAccepted(hlog[c.h]) \/ ~ReceiverAlive(hlog[c.h])]_vars
  /\ [](\A l \in Built :
          /\ \A i \in BehindShutdown(l) : ~InFile(l, i) /\ cur[l].id # i
          /\ \A i \in lost : ~InFile(l, i))

\* a handle was dropped, an Entry then went through the sink into the queue
\* behind the Shutdown, and the worker has exited without writing it
C18_Witness ==
  \E l \in Built : \E h \in Handles :
    /\ hlog[h] = l /\ hst[h] = "dropped"
    /\ wexit[l] = "Shutdown"
    /\ Len(file[l]) >= 1
    /\ \E i \in BehindShutdown(l) : InQueue(l, i)

InLogCall(i) == \E c \in LogCalls : c.m.id = i

\* C19: every log call returns and every drop returns, whether its send
\* finds room after a dequeue or fails because the worker has exited and
\* dropped the receiver.
C19_ProducersReturn ==
  /\ \A i \in 1..MaxMsgs : InLogCall(i) ~> ~InLogCall(i)
  /\ \A h \in Handles : (hst[h] = "dropping") ~> (hst[h] = "dropped")

\* the worker has exited on a Shutdown that sat in a full queue, messages
\* are left in the queue, and a log call has still to return
C19_Witness ==
  \E l \in OneLogger : \E c \in LogCalls :
    /\ hlog[c.h] = l
    /\ wexit[l] = "Shutdown"
    /\ Len(queue[l]) = Capacity - 1
    /\ Len(queue[l]) >= 1

====
